---- MODULE Spec2Model ----
(***************************************************************************)
(* Model of the scene detection / refinement code of modal-clip-video:     *)
(*   src/modal_video_scenes.py  find_precise_boundary,                     *)
(*                              detect_high_confidence_subscenes,          *)
(*                              create_clip, process_video_with_gemini     *)
(*   src/services/scenes.py     _choose_threshold_from_content_vals,       *)
(*                              detect_scenes_seconds                      *)
(*                                                                         *)
(* Times are integers in units of 0.1 s (1.5 s = 15).  The scene detectors *)
(* of the PySceneDetect library are the environment: what they report is   *)
(* an input drawn from bounded sets.  Each component has a specification   *)
(* of its own (SpecRefine, SpecSub, SpecClip, SpecSeg, SpecThr, SpecJob);  *)
(* the variables of the other components stay at their idle values.        *)
(***************************************************************************)
EXTENDS Integers, Sequences, FiniteSets, TLC

VARIABLES
    \* find_precise_boundary
    fuzzy_time,      \* the argument
    detection,       \* what open_video/detect_scenes does: raise, or a scene list + stats
    actual_cut,      \* the returned time (NoValue before the return)
    rpc,             \* "call" | "returned"
    \* detect_high_confidence_subscenes
    sub_start,       \* start_time
    sub_end,         \* end_time
    sub_detection,   \* what the two detectors do: raise, or raw scenes + stats
    final_scenes,    \* the returned list of (start, end)
    accepted_log,    \* the cuts reported "CUT ACCEPTED"
    spc,             \* "call" | "returned"
    \* _choose_threshold_from_content_vals (thresholds are scaled by 1000)
    content_vals,    \* the series of change scores
    fps,             \* frames per second
    min_scene_seconds, \* in units of 0.1 s
    best_threshold,  \* the local of that name when the loop ends (NoValue: None)
    chosen_threshold, \* the returned value (NoValue before the return)
    tpc,             \* "call" | "returned"
    \* detect_scenes_seconds
    seg_detection,   \* what open_video/detect_scenes does: raise, or a scene list
    seg_min_scene_seconds, \* the argument min_scene_seconds
    video_duration,  \* video.duration.get_seconds() (NoValue: not available)
    ranges,          \* the returned list of (start, end)
    gpc,             \* "call" | "returned" | "raised"
    \* create_clip (one worker)
    video,           \* what the detectors find in the file: content cuts, raw cuts
    clip_scene,      \* the argument scene: <<start_time, end_time>>
    clip_start,      \* start_time after refinement
    clip_end,        \* end_time after refinement
    sub_scenes,      \* detect_high_confidence_subscenes' result
    sub_idx,         \* position of the for loop over sub_scenes
    export_calls,    \* the (start, end) pairs passed to cut_and_upload_clip
    clip_result,     \* final_clips of create_clip
    cpc,             \* where create_clip is
    \* process_video_with_gemini (the coordinator of one job)
    timestamps,      \* the scenes Gemini returned: [start_time, end_time]
    actual_duration, \* get_video_duration(high_res_path)
    analysis_stage,  \* how far perform_gemini_analysis is (0..5)
    valid_timestamps, \* the scenes given to create_clip.map
    worker_result,   \* per dispatched scene: [state: "pending" | "raised" | "ok", clips]
    final_clips,     \* the coordinator's final_clips
    completed_count, \* the coordinator's completed_count
    progress_tracker, \* progress_tracker[job_id] in units of 0.01 (NoValue: no entry)
    job_outcome,     \* "none" | "returned" | "raised"
    job_result,      \* the returned list
    jpc,             \* where the coordinator is
    \* auto_choose_threshold_for_video, ffmpeg_export_clip, ffmpeg_export_clip_precise
    param_call,      \* the call: [fn, ...arguments...]
    ffmpeg_cmds,     \* the ffmpeg command lines run: [ss, t] or [ss, to]
    fps_used,        \* the fps given to _choose_threshold_from_content_vals
    param_threshold, \* auto_choose_threshold_for_video's result
    param_outcome,   \* "none" | "returned" | "ValueError" | "RuntimeError"
    ppc,             \* "idle" | "call" | "ffmpeg" | "done"
    \* two invocations of _choose_threshold_from_content_vals on one list object
    list_obj,        \* the list object both invocations were given
    conc_args,       \* the arguments: [content_vals (as passed), fps, min_scene_seconds]
    inv_pc,          \* per invocation: "call" | "sorted" | "returned"
    inv_sorted,      \* per invocation: its local sorted_vals
    inv_result,      \* per invocation: the returned value
    \* get_next_keyframe_time, get_previous_keyframe_time
    key_fn,          \* which of the two was called
    probe,           \* what ffprobe did: [raises, returncode, lines]
    key_seconds,     \* the argument start_seconds / end_seconds
    key_result,      \* the returned value (NoValue: None)
    kpc,             \* "idle" | "call" | "returned"
    \* GET /status/{job_id}
    call_finished,   \* the FunctionCall holds the job's outcome: call.get(timeout=0) answers
    poll_log         \* the responses so far: [status, progress]

refineVars == <<fuzzy_time, detection, actual_cut, rpc>>
subVars == <<sub_start, sub_end, sub_detection, final_scenes, accepted_log, spc>>
segVars == <<seg_detection, seg_min_scene_seconds, video_duration, ranges, gpc>>
clipVars == <<video, clip_scene, clip_start, clip_end, sub_scenes, sub_idx, export_calls,
              clip_result, cpc>>
jobVars == <<timestamps, actual_duration, analysis_stage, valid_timestamps, worker_result,
             final_clips, completed_count, progress_tracker, job_outcome, job_result, jpc>>
thrVars == <<content_vals, fps, min_scene_seconds, best_threshold, chosen_threshold, tpc>>
paramVars == <<param_call, ffmpeg_cmds, fps_used, param_threshold, param_outcome, ppc>>
concVars == <<list_obj, conc_args, inv_pc, inv_sorted, inv_result>>
keyVars == <<key_fn, probe, key_seconds, key_result, kpc>>
pollVars == <<call_finished, poll_log>>
extraVars == <<paramVars, concVars, keyVars, pollVars>>

notRefine == <<subVars, thrVars, segVars, clipVars, jobVars, extraVars>>
notSub == <<refineVars, thrVars, segVars, clipVars, jobVars, extraVars>>
notThr == <<refineVars, subVars, segVars, clipVars, jobVars, extraVars>>
notSeg == <<refineVars, subVars, thrVars, clipVars, jobVars, extraVars>>
notClip == <<refineVars, subVars, thrVars, segVars, jobVars, extraVars>>
notJob == <<refineVars, subVars, thrVars, segVars, clipVars, extraVars>>
coreVars == <<refineVars, subVars, thrVars, segVars, clipVars, jobVars>>
notParam == <<coreVars, concVars, keyVars, pollVars>>
notConc == <<coreVars, paramVars, keyVars, pollVars>>
notKey == <<coreVars, paramVars, concVars, pollVars>>
notPoll == <<refineVars, subVars, thrVars, segVars, clipVars, paramVars, concVars, keyVars>>

NoValue == -1000         \* not a time: "nothing returned yet"
NoMetric == -1           \* StatsManager holds no value for that frame

----------------------------------------------------------------------------
(* Helpers *)

Max2(a, b) == IF a >= b THEN a ELSE b
Abs(a) == IF a >= 0 THEN a ELSE -a

MinOf(S) == CHOOSE x \in S : \A y \in S : x <= y

RECURSIVE SortedSeq(_)
SortedSeq(S) == IF S = {} THEN <<>> ELSE <<MinOf(S)>> \o SortedSeq(S \ {MinOf(S)})

\* Subsets of S with at most k elements
RECURSIVE SubsetsUpTo(_, _)
SubsetsUpTo(S, k) ==
    IF k = 0 \/ S = {} THEN {{}}
    ELSE LET x == MinOf(S)
             rest == S \ {x}
         IN SubsetsUpTo(rest, k) \cup {T \cup {x} : T \in SubsetsUpTo(rest, k - 1)}

\* The scene list PySceneDetect builds from a window and the cuts inside it:
\* contiguous (start, end) pairs, the first starting where detection started.
ScenesFromCuts(first, last, cutSet) ==
    LET b == <<first>> \o SortedSeq(cutSet) \o <<last>>
    IN [i \in 1..(Len(b) - 1) |-> <<b[i], b[i + 1]>>]

----------------------------------------------------------------------------
(* find_precise_boundary, src/modal_video_scenes.py:75-121 *)

SEARCH_RADIUS == 15

start_search(fuzzy) == Max2(0, fuzzy - SEARCH_RADIUS)
end_search(fuzzy) == fuzzy + SEARCH_RADIUS

\* cuts = [scene[0] for scene in scene_list[1:]]
CutsOf(scene_list) == [i \in 1..(Len(scene_list) - 1) |-> scene_list[i + 1][1]]

\* m[0] if (m and m[0] is not None) else 0
cut_strength(stats, t) ==
    IF t \in DOMAIN stats /\ stats[t] # NoMetric THEN stats[t] ELSE 0

\* max(0, 1.0 - distance / SEARCH_RADIUS), times SEARCH_RADIUS
proximity_multiplier(fuzzy, t) == Max2(0, SEARCH_RADIUS - Abs(t - fuzzy))

\* A mutant: the proximity is ignored, the strongest cut wins.
get_fitness_score_strengthOnly(fuzzy, stats, t) == cut_strength(stats, t)

\* cut_strength * proximity_multiplier ** 2, times SEARCH_RADIUS ** 2 (the same
\* positive factor for every cut, so comparisons are those of the code)
get_fitness_score(fuzzy, stats, t) ==
    cut_strength(stats, t) * proximity_multiplier(fuzzy, t) * proximity_multiplier(fuzzy, t)

\* Python's max(cuts, key=...): one left-to-right scan that replaces the best
\* so far only by a strictly greater key, so the first maximal element wins.
RECURSIVE MaxScanLast(_, _, _, _, _)
MaxScanLast(cuts, i, best, fuzzy, stats) ==
    IF i > Len(cuts) THEN best
    ELSE MaxScanLast(cuts, i + 1,
                 IF get_fitness_score(fuzzy, stats, cuts[i]) >= get_fitness_score(fuzzy, stats, best)
                 THEN cuts[i] ELSE best,
                 fuzzy, stats)

RECURSIVE MaxScan(_, _, _, _, _)
MaxScan(cuts, i, best, fuzzy, stats) ==
    IF i > Len(cuts) THEN best
    ELSE MaxScan(cuts, i + 1,
                 IF get_fitness_score(fuzzy, stats, cuts[i]) > get_fitness_score(fuzzy, stats, best)
                 THEN cuts[i] ELSE best,
                 fuzzy, stats)

\* A mutant: on equal keys the later cut replaces the earlier one.
best_cut_timecode_lastWins(cuts, fuzzy, stats) == MaxScanLast(cuts, 2, cuts[1], fuzzy, stats)

best_cut_timecode(cuts, fuzzy, stats) == MaxScan(cuts, 2, cuts[1], fuzzy, stats)

\* A mutant: the except branch and the no-cut branches return the start of the
\* search window instead of the fuzzy time.
find_precise_boundary_noFallback(fuzzy, det) ==
    IF det.raises THEN start_search(fuzzy)
    ELSE IF Len(det.scene_list) = 0 THEN start_search(fuzzy)
    ELSE IF Len(CutsOf(det.scene_list)) = 0 THEN start_search(fuzzy)
    ELSE best_cut_timecode(CutsOf(det.scene_list), fuzzy, det.stats)

find_precise_boundary(fuzzy, det) ==
    IF det.raises THEN fuzzy                                   \* except: return fuzzy_time
    ELSE IF Len(det.scene_list) = 0 THEN fuzzy                 \* if not scene_list
    ELSE IF Len(CutsOf(det.scene_list)) = 0 THEN fuzzy         \* if not cuts
    ELSE best_cut_timecode(CutsOf(det.scene_list), fuzzy, det.stats)

(* Inputs of SpecRefine *)
MaxCuts == 2
FuzzyTimes == {10, 100}
CutOffsets == {-11, -10, -5, 0, 2, 5, 10, 15}
ContentVals == {NoMetric, 8, 20, 27, 108}

\* Cut times a detection started at start_search and stopped at end_search can
\* report: after the first frame of the window, up to its end.
WindowCutTimes(fuzzy) ==
    {fuzzy + o : o \in CutOffsets} \cap ((start_search(fuzzy) + 1)..end_search(fuzzy))

\* What the detector does in the window: it raises, it reports no scene at
\* all, or it reports the scenes between the cuts (one scene when no cut).
DetectionsWith(first, last, cutTimes, k) ==
    {[raises |-> TRUE, scene_list |-> <<>>, stats |-> <<>>],
     [raises |-> FALSE, scene_list |-> <<>>, stats |-> <<>>]}
    \cup UNION {{[raises |-> FALSE, scene_list |-> ScenesFromCuts(first, last, C), stats |-> st] :
                    st \in [C -> ContentVals]} : C \in SubsetsUpTo(cutTimes, k)}

Detections(fuzzy) ==
    DetectionsWith(start_search(fuzzy), end_search(fuzzy), WindowCutTimes(fuzzy), MaxCuts)

NoDetection == [raises |-> FALSE, scene_list |-> <<>>, stats |-> <<>>]

RefineIdle ==
    /\ fuzzy_time = 0
    /\ detection = NoDetection
    /\ actual_cut = NoValue
    /\ rpc = "idle"

RefineInit ==
    /\ fuzzy_time \in FuzzyTimes
    /\ detection \in Detections(fuzzy_time)
    /\ actual_cut = NoValue
    /\ rpc = "call"

RefineCall ==
    /\ rpc = "call"
    /\ actual_cut' = find_precise_boundary(fuzzy_time, detection)
    /\ rpc' = "returned"
    /\ UNCHANGED <<fuzzy_time, detection>>
    /\ UNCHANGED notRefine

----------------------------------------------------------------------------
(* detect_high_confidence_subscenes, src/modal_video_scenes.py:123-186 *)
(* adaptive_ratio in units of 1, hash_dist in units of 0.1                *)

ADAPTIVE_THRESHOLD == 7
SCREAMER_ADAPTIVE_THRESHOLD == 13
HASH_THRESHOLD == 4

\* stats_manager.metrics_exist(cut_frame, [adaptive_metric, hash_metric])
metrics_exist(stats, t) == t \in DOMAIN stats /\ stats[t].exist

\* metrics[k] if metrics[k] is not None else 0
adaptive_val(m) == IF m.adaptive # NoMetric THEN m.adaptive ELSE 0
hash_val(m) == IF m.hash # NoMetric THEN m.hash ELSE 0

is_consensus(m) == adaptive_val(m) >= ADAPTIVE_THRESHOLD /\ hash_val(m) >= HASH_THRESHOLD
is_screamer(m) == adaptive_val(m) >= SCREAMER_ADAPTIVE_THRESHOLD

\* A mutant: either signal alone is enough.
cut_accepted_either(stats, t) ==
    /\ metrics_exist(stats, t)
    /\ \/ (adaptive_val(stats[t]) >= ADAPTIVE_THRESHOLD \/ hash_val(stats[t]) >= HASH_THRESHOLD)
       \/ is_screamer(stats[t])

\* lines 154-173: the branch that appends and moves current_scene_start
cut_accepted(stats, t) ==
    /\ metrics_exist(stats, t)
    /\ (is_consensus(stats[t]) \/ is_screamer(stats[t]))

\* for i in range(len(raw_scenes) - 1): the loop state is final_scenes,
\* current_scene_start and the accepted cuts printed so far.
RECURSIVE ScanRawScenes(_, _, _, _)
ScanRawScenes(raw_scenes, i, st, stats) ==
    IF i > Len(raw_scenes) - 1 THEN st
    ELSE LET cut_timecode == raw_scenes[i][2]
         IN ScanRawScenes(raw_scenes, i + 1,
                IF cut_accepted(stats, cut_timecode)
                THEN [final |-> Append(st.final, <<st.current_scene_start, cut_timecode>>),
                      current_scene_start |-> cut_timecode,
                      accepted |-> st.accepted \cup {cut_timecode}]
                ELSE st,
                stats)

\* A mutant: the trailing range is forgotten.
FinishScenes_noTrailing(st, end_time) == st.final

\* A mutant: the trailing range is appended even when no cut was accepted.
FinishScenes_alwaysTrailing(st, end_time) ==
    Append(st.final, <<st.current_scene_start, end_time>>)

\* lines 175-182
FinishScenes(st, end_time) ==
    IF Len(st.final) = 0 THEN <<>>
    ELSE Append(st.final, <<st.current_scene_start, end_time>>)

\* The whole function: [scenes, accepted]
detect_high_confidence_subscenes(start_time, end_time, det) ==
    IF det.raises THEN [scenes |-> <<>>, accepted |-> {}]                  \* except: return []
    ELSE IF Len(det.scene_list) <= 1 THEN [scenes |-> <<>>, accepted |-> {}]
    ELSE LET st == ScanRawScenes(det.scene_list, 1,
                       [final |-> <<>>,
                        current_scene_start |-> det.scene_list[1][1],
                        accepted |-> {}],
                       det.stats)
         IN [scenes |-> FinishScenes(st, end_time), accepted |-> st.accepted]

(* Inputs of SpecSub *)
MaxSubCuts == 2
SubStarts == {0}
SubEnds == {20, 30}
SubCutTimes == {5, 10, 15, 25}
AdaptiveVals == {6, 7, 13, 14}
HashVals == {1, 4, 9}
CutMetrics ==
    {[exist |-> FALSE, adaptive |-> NoMetric, hash |-> NoMetric],
     [exist |-> TRUE, adaptive |-> NoMetric, hash |-> 9],
     [exist |-> TRUE, adaptive |-> 7, hash |-> NoMetric]}
    \cup {[exist |-> TRUE, adaptive |-> a, hash |-> h] : a \in AdaptiveVals, h \in HashVals}

SubDetectionsWith(first, last, cutTimes, k, metrics) ==
    {[raises |-> TRUE, scene_list |-> <<>>, stats |-> <<>>],
     [raises |-> FALSE, scene_list |-> <<>>, stats |-> <<>>]}
    \cup UNION {{[raises |-> FALSE, scene_list |-> ScenesFromCuts(first, last, C), stats |-> st] :
                    st \in [C -> metrics]} : C \in SubsetsUpTo(cutTimes, k)}

SubIdle ==
    /\ sub_start = 0
    /\ sub_end = 0
    /\ sub_detection = NoDetection
    /\ final_scenes = <<>>
    /\ accepted_log = {}
    /\ spc = "idle"

SubInit ==
    /\ sub_start \in SubStarts
    /\ sub_end \in SubEnds
    /\ sub_detection \in SubDetectionsWith(sub_start, sub_end,
                             SubCutTimes \cap ((sub_start + 1)..(sub_end - 1)),
                             MaxSubCuts, CutMetrics)
    /\ final_scenes = <<>>
    /\ accepted_log = {}
    /\ spc = "call"

SubCall ==
    /\ spc = "call"
    /\ LET r == detect_high_confidence_subscenes(sub_start, sub_end, sub_detection)
       IN /\ final_scenes' = r.scenes
          /\ accepted_log' = r.accepted
    /\ spc' = "returned"
    /\ UNCHANGED <<sub_start, sub_end, sub_detection>>
    /\ UNCHANGED notSub


----------------------------------------------------------------------------
(* Threshold selection, src/services/scenes.py:53-119                      *)
(* A threshold t is represented by 1000 * t, which makes the interpolated  *)
(* percentiles integers; indices are 0-based as in the code: values[i] is  *)
(* vals[i + 1].                                                            *)

ThresholdScale == 1000
DEFAULT_THRESHOLD == 27000           \* 27.0

\* sorted(content_vals)
RECURSIVE InsertSorted(_, _)
InsertSorted(sq, x) ==
    IF sq = <<>> THEN <<x>>
    ELSE IF x < Head(sq) THEN <<x>> \o sq
    ELSE <<Head(sq)>> \o InsertSorted(Tail(sq), x)

RECURSIVE Sorted(_)
Sorted(sq) == IF sq = <<>> THEN <<>> ELSE InsertSorted(Sorted(Tail(sq)), Head(sq))

\* percent is given in tenths of a percent (98.5 -> 985); the result is scaled
\* by ThresholdScale.  n = 0 raises ValueError (never called so here).
percentile_of_sorted(sorted_values, permille) ==
    LET n == Len(sorted_values)
        rank == permille * (n - 1)                \* 1000 * rank
        low == rank \div 1000                     \* int(rank)
        high == IF low + 1 <= n - 1 THEN low + 1 ELSE n - 1
        fraction == rank % 1000                   \* 1000 * (rank - low)
    IN IF n = 1 THEN sorted_values[1] * ThresholdScale
       ELSE IF permille <= 0 THEN sorted_values[1] * ThresholdScale
       ELSE IF permille >= 1000 THEN sorted_values[n] * ThresholdScale
       ELSE sorted_values[low + 1] * (1000 - fraction) + sorted_values[high + 1] * fraction

\* for i in range(1, len(values) - 1): the loop state is (peaks, last_idx)
RECURSIVE LocalMaximaFrom(_, _, _, _, _)
LocalMaximaFrom(values, min_separation, i, peaks, last_idx) ==
    IF i > Len(values) - 2 THEN peaks
    ELSE IF i - last_idx < min_separation
         THEN LocalMaximaFrom(values, min_separation, i + 1, peaks, last_idx)
    ELSE IF values[i + 1] > values[i] /\ values[i + 1] >= values[i + 2]
         THEN LocalMaximaFrom(values, min_separation, i + 1, Append(peaks, i), i)
    ELSE LocalMaximaFrom(values, min_separation, i + 1, peaks, last_idx)

find_local_maxima(values, min_separation) ==
    LocalMaximaFrom(values, min_separation, 1, <<>>, -min_separation)

\* max(1, int(min_scene_seconds * fps)), min_scene_seconds >= 0 in tenths
min_sep_of(f, mss) == Max2(1, (mss * f) \div 10)

percentiles == <<800, 850, 900, 925, 950, 970, 980, 985, 990, 992, 994, 996, 998, 999>>

\* sorted({_percentile_of_sorted(sorted_vals, p) for p in percentiles})
candidates_from_sorted(sorted_vals) ==
    SortedSeq({percentile_of_sorted(sorted_vals, percentiles[k]) : k \in 1..Len(percentiles)})

candidates_of(vals) == candidates_from_sorted(Sorted(vals))

\* peaks = [idx for idx in peaks if content_vals[idx] >= t]
RECURSIVE FilterPeaks(_, _, _)
FilterPeaks(vals, peaks, t) ==
    IF peaks = <<>> THEN <<>>
    ELSE IF vals[Head(peaks) + 1] * ThresholdScale >= t
         THEN <<Head(peaks)>> \o FilterPeaks(vals, Tail(peaks), t)
    ELSE FilterPeaks(vals, Tail(peaks), t)

\* A variant: one scan in which the threshold test is part of the acceptance, so
\* that only indices at or above the threshold count as previously accepted.
RECURSIVE ThresholdFirstFrom(_, _, _, _, _, _)
ThresholdFirstFrom(values, min_separation, t, i, peaks, last_idx) ==
    IF i > Len(values) - 2 THEN peaks
    ELSE IF /\ i - last_idx >= min_separation
            /\ values[i + 1] > values[i] /\ values[i + 1] >= values[i + 2]
            /\ values[i + 1] * ThresholdScale >= t
         THEN ThresholdFirstFrom(values, min_separation, t, i + 1, Append(peaks, i), i)
    ELSE ThresholdFirstFrom(values, min_separation, t, i + 1, peaks, last_idx)

trial_peaks_thresholdFirst(vals, min_sep, t) ==
    ThresholdFirstFrom(vals, min_sep, t, 1, <<>>, -min_sep)

trial_peaks(vals, min_sep, t) == FilterPeaks(vals, find_local_maxima(vals, min_sep), t)

\* cut_idxs = [0] + peaks + [len(content_vals) - 1]; lengths = their differences
trial_lengths(vals, peaks) ==
    LET cut_idxs == <<0>> \o peaks \o <<Len(vals) - 1>>
    IN [i \in 1..(Len(cut_idxs) - 1) |-> cut_idxs[i + 1] - cut_idxs[i]]

\* A mutant: thresholds that produce sub-min scenes are not rejected.
has_sub_min_scene_never(lengths, min_sep) == FALSE

\* any(length < min_sep for length in lengths)
has_sub_min_scene(lengths, min_sep) ==
    \E i \in 1..Len(lengths) : lengths[i] < min_sep

\* A mutant: among equal numbers of scenes the larger threshold wins.
ScoreGreater_largestThreshold(n1, t1, n2, t2) == n1 > n2 \/ (n1 = n2 /\ t1 > t2)

\* score > best_score on tuples (num_scenes, -threshold)
ScoreGreater(n1, t1, n2, t2) == n1 > n2 \/ (n1 = n2 /\ -t1 > -t2)

\* A mutant: a threshold that leaves no peak is scored like any other.
no_peaks_never(peaks) == FALSE

\* if not peaks: continue
no_peaks(peaks) == peaks = <<>>

\* for t in candidates: the loop state is (best_threshold, best_score)
RECURSIVE BestFrom(_, _, _, _, _)
BestFrom(vals, min_sep, cands, k, best) ==
    IF k > Len(cands) THEN best
    ELSE LET t == cands[k]
             peaks == trial_peaks(vals, min_sep, t)
             lengths == trial_lengths(vals, peaks)
         IN IF no_peaks(peaks) THEN BestFrom(vals, min_sep, cands, k + 1, best)
            ELSE IF has_sub_min_scene(lengths, min_sep)
                 THEN BestFrom(vals, min_sep, cands, k + 1, best)
            ELSE IF best.threshold = NoValue
                    \/ ScoreGreater(Len(lengths), t, best.num, best.threshold)
                 THEN BestFrom(vals, min_sep, cands, k + 1,
                               [threshold |-> t, num |-> Len(lengths)])
            ELSE BestFrom(vals, min_sep, cands, k + 1, best)

\* A mutant: the fallback is the hard-coded default instead of the percentile.
fallback_threshold_default(vals) == DEFAULT_THRESHOLD

\* lines 116-119: float(_percentile_of_sorted(sorted_vals, 98.0)); the except
\* branch (27.0) is taken only when the series is empty, which line 85 excludes
fallback_threshold(vals) ==
    IF Len(vals) = 0 THEN DEFAULT_THRESHOLD
    ELSE percentile_of_sorted(Sorted(vals), 980)

\* The whole function: [best, chosen]
choose_threshold_from_content_vals(vals, f, mss) ==
    IF Len(vals) = 0 THEN [best |-> NoValue, chosen |-> DEFAULT_THRESHOLD]
    ELSE LET best == BestFrom(vals, min_sep_of(f, mss), candidates_of(vals), 1,
                              [threshold |-> NoValue, num |-> 0])
         IN IF best.threshold # NoValue
            THEN [best |-> best.threshold, chosen |-> best.threshold]
            ELSE [best |-> NoValue, chosen |-> fallback_threshold(vals)]

\* A mutant: the series is sorted in place (content_vals.sort()).
list_after_sort_in_place(vals) == Sorted(vals)

\* sorted(content_vals) builds a new list: the argument is left as it was
list_after_sorted(vals) == vals

\* lines 90-119, for an invocation that holds its sorted_vals and reads the
\* list object it was given
choose_after_sort(vals, sorted_vals, f, mss) ==
    LET best == BestFrom(vals, min_sep_of(f, mss), candidates_from_sorted(sorted_vals), 1,
                         [threshold |-> NoValue, num |-> 0])
    IN IF best.threshold # NoValue THEN best.threshold
       ELSE percentile_of_sorted(sorted_vals, 980)

(* Inputs of SpecThr *)
MaxLen == 6
ScoreValues == {0, 1, 2}
FpsValues == {1, 2}
MinSceneSecondsValues == {0, 10, 15}

SeriesUpTo(n, V) == UNION {[1..k -> V] : k \in 0..n}

(* Two invocations on the same list object (SpecConc).  Each invocation runs *)
(* line 85-89 (the emptiness test and the sort), then the rest.             *)
ConcLen == 4
Invocations == {1, 2}

ConcIdle ==
    /\ list_obj = <<>>
    /\ conc_args = [content_vals |-> <<>>, fps |-> 0, min_scene_seconds |-> 0]
    /\ inv_pc = [i \in Invocations |-> "idle"]
    /\ inv_sorted = [i \in Invocations |-> <<>>]
    /\ inv_result = [i \in Invocations |-> NoValue]

ConcInit ==
    /\ list_obj \in SeriesUpTo(ConcLen, ScoreValues) \ {<<>>}
    /\ \E f \in FpsValues, mss \in MinSceneSecondsValues :
          conc_args = [content_vals |-> list_obj, fps |-> f, min_scene_seconds |-> mss]
    /\ inv_pc = [i \in Invocations |-> "call"]
    /\ inv_sorted = [i \in Invocations |-> <<>>]
    /\ inv_result = [i \in Invocations |-> NoValue]

\* sorted_vals = sorted(content_vals)
ConcSort(i) ==
    /\ inv_pc[i] = "call"
    /\ inv_sorted' = [inv_sorted EXCEPT ![i] = Sorted(list_obj)]
    /\ list_obj' = list_after_sorted(list_obj)
    /\ inv_pc' = [inv_pc EXCEPT ![i] = "sorted"]
    /\ UNCHANGED <<conc_args, inv_result>>
    /\ UNCHANGED notConc

\* the candidates, the loop and the return
ConcChoose(i) ==
    /\ inv_pc[i] = "sorted"
    /\ inv_result' = [inv_result EXCEPT
                         ![i] = choose_after_sort(list_obj, inv_sorted[i], conc_args.fps,
                                                  conc_args.min_scene_seconds)]
    /\ inv_pc' = [inv_pc EXCEPT ![i] = "returned"]
    /\ UNCHANGED <<list_obj, conc_args, inv_sorted>>
    /\ UNCHANGED notConc

ConcSortStep == \E i \in Invocations : ConcSort(i)
ConcChooseStep == \E i \in Invocations : ConcChoose(i)

ThrIdle ==
    /\ content_vals = <<>>
    /\ fps = 0
    /\ min_scene_seconds = 0
    /\ best_threshold = NoValue
    /\ chosen_threshold = NoValue
    /\ tpc = "idle"

ThrInit ==
    /\ content_vals \in SeriesUpTo(MaxLen, ScoreValues)
    /\ fps \in FpsValues
    /\ min_scene_seconds \in MinSceneSecondsValues
    /\ best_threshold = NoValue
    /\ chosen_threshold = NoValue
    /\ tpc = "call"

ThrCall ==
    /\ tpc = "call"
    /\ LET r == choose_threshold_from_content_vals(content_vals, fps, min_scene_seconds)
       IN /\ best_threshold' = r.best
          /\ chosen_threshold' = r.chosen
    /\ tpc' = "returned"
    /\ UNCHANGED <<content_vals, fps, min_scene_seconds>>
    /\ UNCHANGED notThr

----------------------------------------------------------------------------
(* detect_scenes_seconds, src/services/scenes.py:186-217 *)

\* (end_s - start_s) >= max(0.0, min_scene_seconds), strict: a mutant
keeps_scene_strict(scene, mss) == (scene[2] - scene[1]) > Max2(0, mss)

\* (end_s - start_s) >= max(0.0, min_scene_seconds)
keeps_scene(scene, mss) == (scene[2] - scene[1]) >= Max2(0, mss)

\* for start, end in scene_list: ... ranges.append((start_s, end_s))
RECURSIVE FilterScenes(_, _)
FilterScenes(scene_list, mss) ==
    IF scene_list = <<>> THEN <<>>
    ELSE IF keeps_scene(Head(scene_list), mss)
         THEN <<Head(scene_list)>> \o FilterScenes(Tail(scene_list), mss)
    ELSE FilterScenes(Tail(scene_list), mss)

\* try: duration = float(video.duration.get_seconds()) except: duration = 0.0
probed_duration(dur) == IF dur = NoValue THEN 0 ELSE dur

\* A mutant: no fallback range when the filter drops every scene.
detect_scenes_seconds_noFallback(scene_list, mss, dur) == FilterScenes(scene_list, mss)

detect_scenes_seconds(scene_list, mss, dur) ==
    IF scene_list = <<>> THEN <<<<0, probed_duration(dur)>>>>
    ELSE IF FilterScenes(scene_list, mss) = <<>> THEN <<<<0, probed_duration(dur)>>>>
    ELSE FilterScenes(scene_list, mss)

(* Inputs of SpecSeg *)
MaxSegCuts == 3
VideoEnds == {20, 30}
SegCutTimes == {5, 10, 15, 20, 25}
SegMinSceneSeconds == {-10, 0, 5, 10, 20}

\* The detector raises (the video cannot be opened), reports no scene (no cut
\* found), or reports the contiguous scenes from 0 to the end of the video.
SegDetectionsWith(last, cutTimes, k) ==
    {[raises |-> TRUE, scene_list |-> <<>>, stats |-> <<>>],
     [raises |-> FALSE, scene_list |-> <<>>, stats |-> <<>>]}
    \cup {[raises |-> FALSE, scene_list |-> ScenesFromCuts(0, last, C), stats |-> <<>>] :
             C \in SubsetsUpTo(cutTimes, k) \ {{}}}

SegIdle ==
    /\ seg_detection = NoDetection
    /\ seg_min_scene_seconds = 0
    /\ video_duration = NoValue
    /\ ranges = <<>>
    /\ gpc = "idle"

SegInit ==
    /\ \E last \in VideoEnds :
          /\ seg_detection \in SegDetectionsWith(last, SegCutTimes \cap (1..(last - 1)), MaxSegCuts)
          /\ video_duration \in {last, NoValue}
    /\ seg_min_scene_seconds \in SegMinSceneSeconds
    /\ ranges = <<>>
    /\ gpc = "call"

\* The function returns its ranges.
SegCall ==
    /\ gpc = "call"
    /\ ~seg_detection.raises
    /\ ranges' = detect_scenes_seconds(seg_detection.scene_list, seg_min_scene_seconds,
                                       video_duration)
    /\ gpc' = "returned"
    /\ UNCHANGED <<seg_detection, seg_min_scene_seconds, video_duration>>
    /\ UNCHANGED notSeg

\* open_video or detect_scenes raises: nothing catches it.
SegRaise ==
    /\ gpc = "call"
    /\ seg_detection.raises
    /\ gpc' = "raised"
    /\ UNCHANGED <<seg_detection, seg_min_scene_seconds, video_duration, ranges>>
    /\ UNCHANGED notSeg

----------------------------------------------------------------------------
(* create_clip, src/modal_video_scenes.py:258-279, on one video file.      *)
(* The file fixes what the detectors can find: video.content maps the time *)
(* of each ContentDetector cut to its content_val, video.raw maps the time *)
(* of each Adaptive/Hash raw cut to its metrics.  A detection over a       *)
(* window reports the cuts of the file inside that window.                 *)

MIN_RESULT_DURATION == 20        \* 2.0 s, the coordinator's validation
MIN_SUB_DURATION == 8            \* 0.8 s

Restrict(f, S) == [x \in (DOMAIN f) \cap S |-> f[x]]

\* ContentDetector over [start_search, end_search]: no scene at all when it
\* finds no cut, else the scenes between the cuts.
ContentDetection(v, fuzzy) ==
    LET C == (DOMAIN v.content) \cap ((start_search(fuzzy) + 1)..end_search(fuzzy))
    IN IF C = {} THEN NoDetection
       ELSE [raises |-> FALSE,
             scene_list |-> ScenesFromCuts(start_search(fuzzy), end_search(fuzzy), C),
             stats |-> Restrict(v.content, C)]

\* Adaptive + Hash detectors over [start_time, end_time]
RawDetection(v, start_time, end_time) ==
    LET C == (DOMAIN v.raw) \cap ((start_time + 1)..(end_time - 1))
    IN IF C = {} THEN NoDetection
       ELSE [raises |-> FALSE,
             scene_list |-> ScenesFromCuts(start_time, end_time, C),
             stats |-> Restrict(v.raw, C)]

Raising == [raises |-> TRUE, scene_list |-> <<>>, stats |-> <<>>]

(* Inputs of SpecClip *)
MaxClipCuts == 2
MaxClipRaw == 2
ClipScenes == {<<100, 120>>, <<100, 130>>, <<5, 40>>}
ClipCutTimes == {105, 110, 115, 125}
ClipContentVals == {27, 108}
ClipRawTimes == {108, 110, 120}
ClipMetrics ==
    {[exist |-> FALSE, adaptive |-> NoMetric, hash |-> NoMetric],
     [exist |-> TRUE, adaptive |-> 6, hash |-> 9],
     [exist |-> TRUE, adaptive |-> 14, hash |-> 1]}

FunctionsUpTo(S, k, V) == UNION {[C -> V] : C \in SubsetsUpTo(S, k)}

NoVideo == [content |-> <<>>, raw |-> <<>>]

ClipIdle ==
    /\ video = NoVideo
    /\ clip_scene = <<0, 0>>
    /\ clip_start = NoValue
    /\ clip_end = NoValue
    /\ sub_scenes = <<>>
    /\ sub_idx = 0
    /\ export_calls = <<>>
    /\ clip_result = <<>>
    /\ cpc = "idle"

ClipInit ==
    /\ video \in [content : FunctionsUpTo(ClipCutTimes, MaxClipCuts, ClipContentVals),
                  raw : FunctionsUpTo(ClipRawTimes, MaxClipRaw, ClipMetrics)]
    /\ clip_scene \in ClipScenes
    /\ clip_scene[2] - clip_scene[1] >= MIN_RESULT_DURATION
    /\ clip_start = NoValue
    /\ clip_end = NoValue
    /\ sub_scenes = <<>>
    /\ sub_idx = 0
    /\ export_calls = <<>>
    /\ clip_result = <<>>
    /\ cpc = "refine_start"

\* line 261: start_time = find_precise_boundary(scene["start_time"], input_path)
ClipRefineStart ==
    /\ cpc = "refine_start"
    /\ \E det \in {ContentDetection(video, clip_scene[1]), Raising} :
          clip_start' = find_precise_boundary(clip_scene[1], det)
    /\ cpc' = "refine_end"
    /\ UNCHANGED <<video, clip_scene, clip_end, sub_scenes, sub_idx, export_calls, clip_result>>
    /\ UNCHANGED notClip

\* line 262: end_time = find_precise_boundary(scene["end_time"], input_path)
ClipRefineEnd ==
    /\ cpc = "refine_end"
    /\ \E det \in {ContentDetection(video, clip_scene[2]), Raising} :
          clip_end' = find_precise_boundary(clip_scene[2], det)
    /\ cpc' = "subscenes"
    /\ UNCHANGED <<video, clip_scene, clip_start, sub_scenes, sub_idx, export_calls, clip_result>>
    /\ UNCHANGED notClip

\* line 265: sub_scenes = detect_high_confidence_subscenes(start_time, end_time, ...)
ClipDetectSubscenes ==
    /\ cpc = "subscenes"
    /\ \E det \in {RawDetection(video, clip_start, clip_end), Raising} :
          sub_scenes' = detect_high_confidence_subscenes(clip_start, clip_end, det).scenes
    /\ sub_idx' = 1
    /\ cpc' = "export"
    /\ UNCHANGED <<video, clip_scene, clip_start, clip_end, export_calls, clip_result>>
    /\ UNCHANGED notClip

\* lines 268-270: no sub-scene, the whole refined range is cut; the call returns
\* a clip or raises (ffmpeg or the upload fails), which ends create_clip.
ClipExportWhole ==
    /\ cpc = "export"
    /\ sub_scenes = <<>>
    /\ export_calls' = Append(export_calls, <<clip_start, clip_end>>)
    /\ \/ /\ clip_result' = Append(clip_result, <<clip_start, clip_end>>)
          /\ cpc' = "return"
       \/ /\ clip_result' = clip_result
          /\ cpc' = "raised"
    /\ UNCHANGED <<video, clip_scene, clip_start, clip_end, sub_scenes, sub_idx>>
    /\ UNCHANGED notClip

\* lines 273-277: one iteration of the loop over sub_scenes that calls
\* cut_and_upload_clip
ClipExportSub ==
    /\ cpc = "export"
    /\ sub_scenes # <<>>
    /\ sub_idx <= Len(sub_scenes)
    /\ sub_scenes[sub_idx][2] - sub_scenes[sub_idx][1] >= MIN_SUB_DURATION
    /\ export_calls' = Append(export_calls, sub_scenes[sub_idx])
    /\ \/ /\ clip_result' = Append(clip_result, sub_scenes[sub_idx])
          /\ sub_idx' = sub_idx + 1
          /\ cpc' = cpc
       \/ /\ clip_result' = clip_result
          /\ sub_idx' = sub_idx
          /\ cpc' = "raised"
    /\ UNCHANGED <<video, clip_scene, clip_start, clip_end, sub_scenes>>
    /\ UNCHANGED notClip

\* line 276: one iteration that skips a sub-scene shorter than 0.8 s
ClipSkipSub ==
    /\ cpc = "export"
    /\ sub_scenes # <<>>
    /\ sub_idx <= Len(sub_scenes)
    /\ ~(sub_scenes[sub_idx][2] - sub_scenes[sub_idx][1] >= MIN_SUB_DURATION)
    /\ sub_idx' = sub_idx + 1
    /\ UNCHANGED <<video, clip_scene, clip_start, clip_end, sub_scenes, export_calls,
                   clip_result, cpc>>
    /\ UNCHANGED notClip

\* the loop over sub_scenes is over
ClipLoopEnd ==
    /\ cpc = "export"
    /\ sub_scenes # <<>>
    /\ sub_idx > Len(sub_scenes)
    /\ cpc' = "return"
    /\ UNCHANGED <<video, clip_scene, clip_start, clip_end, sub_scenes, sub_idx, export_calls,
                   clip_result>>
    /\ UNCHANGED notClip

\* line 279: return final_clips
ClipReturn ==
    /\ cpc = "return"
    /\ cpc' = "returned"
    /\ UNCHANGED <<video, clip_scene, clip_start, clip_end, sub_scenes, sub_idx, export_calls,
                   clip_result>>
    /\ UNCHANGED notClip

----------------------------------------------------------------------------
(* process_video_with_gemini, src/modal_video_scenes.py:306-538            *)
(* Progress values are in units of 0.01.  create_clip runs in workers: the *)
(* coordinator sees, per dispatched scene, its list of clips or the        *)
(* exception it raised (after Modal's retries).                            *)

INITIAL_PROGRESS == 10                       \* line 308: 0.1
ANALYSIS_PROGRESS == <<20, 30, 35, 45, 50>>  \* lines 317, 334, 341, 348, 429

\* lines 465-488, one iteration.  The assignment of line 476 is overwritten by
\* the update of lines 482-487, which stores the unclamped end.
validated(ts, dur) ==
    LET start == ts.start_time
        end == ts.end_time
        clamped == IF end > dur THEN [ts EXCEPT !.end_time = dur] ELSE ts
        duration == end - start
    IN IF start >= dur THEN <<>>
       ELSE IF duration >= MIN_RESULT_DURATION
            THEN <<[clamped EXCEPT !.start_time = start, !.end_time = end]>>
       ELSE <<>>

\* for ts in timestamps: ... valid_timestamps.append(ts)
RECURSIVE validate_all(_, _)
validate_all(tss, dur) ==
    IF tss = <<>> THEN <<>>
    ELSE validated(Head(tss), dur) \o validate_all(Tail(tss), dur)

\* A mutant: an exception of a worker is raised in the coordinator.
return_exceptions_off == FALSE

\* line 507: return_exceptions=True
return_exceptions == TRUE

\* round(0.5 + (completed_count / total_scenes) * 0.5, 2): rounding to the
\* nearest hundredth, a half to the even one
fanout_progress(count, total) ==
    LET q == (50 * count) \div total
        r == (50 * count) % total
    IN 50 + (IF 2 * r > total THEN q + 1
             ELSE IF 2 * r = total /\ q % 2 = 1 THEN q + 1
             ELSE q)

\* The clips one worker returns for scene i: cut_and_upload_clip copies the
\* scene's metadata (start_time) into every clip.
clips_of(i, scene, n) == [k \in 1..n |-> [scene |-> i, start_time |-> scene.start_time, part |-> k]]

\* final_clips.sort(key=lambda x: float(x.get("start_time", 0))): a stable sort
RECURSIVE InsertByStart(_, _)
InsertByStart(sq, c) ==
    IF sq = <<>> THEN <<c>>
    ELSE IF c.start_time < Head(sq).start_time THEN <<c>> \o sq
    ELSE <<Head(sq)>> \o InsertByStart(Tail(sq), c)

RECURSIVE SortByStart(_)
SortByStart(sq) ==
    IF sq = <<>> THEN <<>>
    ELSE InsertByStart(SortByStart(SubSeq(sq, 1, Len(sq) - 1)), sq[Len(sq)])

Pending == [state |-> "pending", clips |-> <<>>]

(* Inputs of SpecJob *)
MaxScenes == 3
GeminiScenes ==
    {[start_time |-> 0, end_time |-> 20], [start_time |-> 0, end_time |-> 15],
     [start_time |-> 30, end_time |-> 60], [start_time |-> 90, end_time |-> 120],
     [start_time |-> 110, end_time |-> 130]}
Durations == {0, 100}
WorkerClipCounts == {1, 2}

JobIdle ==
    /\ timestamps = <<>>
    /\ actual_duration = 0
    /\ analysis_stage = 0
    /\ valid_timestamps = <<>>
    /\ worker_result = <<>>
    /\ final_clips = <<>>
    /\ completed_count = 0
    /\ progress_tracker = NoValue
    /\ job_outcome = "none"
    /\ job_result = <<>>
    /\ jpc = "idle"

JobInit ==
    /\ timestamps \in UNION {[1..n -> GeminiScenes] : n \in 0..MaxScenes}
    /\ actual_duration \in Durations
    /\ analysis_stage = 0
    /\ valid_timestamps = <<>>
    /\ worker_result = <<>>
    /\ final_clips = <<>>
    /\ completed_count = 0
    /\ progress_tracker = NoValue
    /\ job_outcome = "none"
    /\ job_result = <<>>
    /\ jpc = "spawned"

\* line 308
JobStart ==
    /\ jpc = "spawned"
    /\ progress_tracker' = INITIAL_PROGRESS
    /\ jpc' = "analysis"
    /\ UNCHANGED <<timestamps, actual_duration, analysis_stage, valid_timestamps,
                   worker_result, final_clips, completed_count, job_outcome, job_result>>
    /\ UNCHANGED notJob

\* perform_gemini_analysis up to its next progress write (lines 316-429)
JobAnalysisStep ==
    /\ jpc = "analysis"
    /\ analysis_stage < Len(ANALYSIS_PROGRESS)
    /\ analysis_stage' = analysis_stage + 1
    /\ progress_tracker' = ANALYSIS_PROGRESS[analysis_stage + 1]
    /\ UNCHANGED <<timestamps, actual_duration, valid_timestamps, worker_result, final_clips,
                   completed_count, job_outcome, job_result, jpc>>
    /\ UNCHANGED notJob

\* the download or the analysis raises: lines 532-534
JobAnalysisFail ==
    /\ jpc = "analysis"
    /\ job_outcome' = "raised"
    /\ jpc' = "finally"
    /\ UNCHANGED <<timestamps, actual_duration, analysis_stage, valid_timestamps,
                   worker_result, final_clips, completed_count, progress_tracker, job_result>>
    /\ UNCHANGED notJob

\* lines 459-502: validation; no valid scene raises ValueError
JobValidate ==
    /\ jpc = "analysis"
    /\ analysis_stage = Len(ANALYSIS_PROGRESS)
    /\ valid_timestamps' = validate_all(timestamps, actual_duration)
    /\ IF valid_timestamps' = <<>>
       THEN /\ job_outcome' = "raised"
            /\ jpc' = "finally"
            /\ worker_result' = worker_result
       ELSE /\ job_outcome' = job_outcome
            /\ jpc' = "fanout"
            /\ worker_result' = [i \in 1..Len(valid_timestamps') |-> Pending]
    /\ UNCHANGED <<timestamps, actual_duration, analysis_stage, final_clips, completed_count,
                   progress_tracker, job_result>>
    /\ UNCHANGED notJob

\* lines 504-520, one iteration: the worker of scene i raised
JobReceiveException ==
    /\ jpc = "fanout"
    /\ \E i \in 1..Len(worker_result) :
          /\ worker_result[i].state = "pending"
          /\ worker_result' = [worker_result EXCEPT ![i] = [state |-> "raised", clips |-> <<>>]]
    /\ IF return_exceptions
       THEN /\ jpc' = jpc
            /\ job_outcome' = job_outcome
       ELSE /\ jpc' = "finally"
            /\ job_outcome' = "raised"
    /\ UNCHANGED <<timestamps, actual_duration, analysis_stage, valid_timestamps, final_clips,
                   completed_count, progress_tracker, job_result>>
    /\ UNCHANGED notJob

\* lines 504-520, one iteration: the worker of scene i returned its clips
JobReceiveClips ==
    /\ jpc = "fanout"
    /\ \E i \in 1..Len(worker_result) : \E n \in WorkerClipCounts :
          /\ worker_result[i].state = "pending"
          /\ worker_result' = [worker_result EXCEPT
                                  ![i] = [state |-> "ok",
                                          clips |-> clips_of(i, valid_timestamps[i], n)]]
          /\ final_clips' = final_clips \o clips_of(i, valid_timestamps[i], n)
    /\ completed_count' = completed_count + 1
    /\ progress_tracker' = fanout_progress(completed_count + 1, Len(valid_timestamps))
    /\ UNCHANGED <<timestamps, actual_duration, analysis_stage, valid_timestamps, job_outcome,
                   job_result, jpc>>
    /\ UNCHANGED notJob

\* lines 522-530: every result was seen; sort and return
JobFinish ==
    /\ jpc = "fanout"
    /\ \A i \in 1..Len(worker_result) : worker_result[i].state # "pending"
    /\ job_result' = SortByStart(final_clips)
    /\ job_outcome' = "returned"
    /\ jpc' = "finally"
    /\ UNCHANGED <<timestamps, actual_duration, analysis_stage, valid_timestamps,
                   worker_result, final_clips, completed_count, progress_tracker>>
    /\ UNCHANGED notJob

\* lines 536-538
JobFinally ==
    /\ jpc = "finally"
    /\ progress_tracker' = NoValue
    /\ jpc' = "done"
    /\ UNCHANGED <<timestamps, actual_duration, analysis_stage, valid_timestamps,
                   worker_result, final_clips, completed_count, job_outcome, job_result>>
    /\ UNCHANGED notJob

----------------------------------------------------------------------------
(* GET /status/{job_id}, src/modal_video_scenes.py:561-600, polled while the  *)
(* coordinator of the job runs.  Modal holds the outcome of the call once the *)
(* coordinator's function has ended, finally block included.                  *)

DEFAULT_PROGRESS == 10       \* progress_tracker.get(job_id, 0.1)
COMPLETED_PROGRESS == 100    \* "progress": 1.0

\* What call.get(timeout=0) meets: the call is "running" (TimeoutError), it
\* "returned" (the result), or it "raised" (the job's exception is raised).
call_state(finished, outcome) == IF finished THEN outcome ELSE "running"

\* lines 594-600: the except branch.  print is the builtin function, which has
\* no attribute error: line 596 raises AttributeError inside the handler and
\* the return of lines 597-600 is not reached.  The request ends with that
\* exception, not with a response of the handler.
except_response(call) ==
    [status |-> "AttributeError", scenes |-> <<>>, progress |-> NoValue, call |-> call]

\* One request to get_status.  call tells what call.get(timeout=0) met
\* ("unknown": no such call, an exception other than TimeoutError); it is kept
\* in the record of the response.
status_response(call, result, tracker) ==
    IF call = "returned"
    THEN [status |-> "completed", scenes |-> result, progress |-> COMPLETED_PROGRESS,
          call |-> call]
    ELSE IF call = "running"
    THEN [status |-> "processing", scenes |-> <<>>,
          progress |-> IF tracker = NoValue THEN DEFAULT_PROGRESS ELSE tracker,
          call |-> call]
    ELSE except_response(call)

(* Inputs of SpecPoll *)
MaxPolls == 2
PollMaxScenes == 2
PollScenes == {[start_time |-> 0, end_time |-> 20], [start_time |-> 30, end_time |-> 60]}

PollIdle ==
    /\ call_finished = FALSE
    /\ poll_log = <<>>

PollInit ==
    /\ timestamps \in UNION {[1..n -> PollScenes] : n \in 0..PollMaxScenes}
    /\ actual_duration \in Durations
    /\ analysis_stage = 0
    /\ valid_timestamps = <<>>
    /\ worker_result = <<>>
    /\ final_clips = <<>>
    /\ completed_count = 0
    /\ progress_tracker = NoValue
    /\ job_outcome = "none"
    /\ job_result = <<>>
    /\ jpc = "spawned"
    /\ call_finished = FALSE
    /\ poll_log = <<>>

\* The coordinator's function has ended: its outcome reaches the FunctionCall.
CallFinished ==
    /\ jpc = "done"
    /\ ~call_finished
    /\ call_finished' = TRUE
    /\ UNCHANGED poll_log
    /\ UNCHANGED <<jobVars, notPoll>>

\* get_status, one request
GetStatus ==
    /\ Len(poll_log) < MaxPolls
    /\ poll_log' = Append(poll_log,
                          status_response(call_state(call_finished, job_outcome),
                                          job_result, progress_tracker))
    /\ UNCHANGED call_finished
    /\ UNCHANGED <<jobVars, notPoll>>

\* get_status, one request with a job id Modal does not know
GetStatusUnknown ==
    /\ Len(poll_log) < MaxPolls
    /\ poll_log' = Append(poll_log, status_response("unknown", <<>>, NoValue))
    /\ UNCHANGED call_finished
    /\ UNCHANGED <<jobVars, notPoll>>

----------------------------------------------------------------------------
(* Parameter handling: auto_choose_threshold_for_video (src/services/scenes.py  *)
(* 149-183), ffmpeg_export_clip and ffmpeg_export_clip_precise                  *)
(* (src/services/ffmpeg_utils.py 189-254).  ffmpeg is the environment: a run    *)
(* of it succeeds or fails.                                                     *)

DEFAULT_FPS == 30                    \* fps = 30.0

\* _safe_get_video_fps: base_timecode.framerate if truthy, else frame_rate if
\* truthy, else None (0 and None are falsy)
safe_get_video_fps(video_obj) ==
    IF video_obj.framerate # NoValue /\ video_obj.framerate # 0 THEN video_obj.framerate
    ELSE IF video_obj.frame_rate # NoValue /\ video_obj.frame_rate # 0 THEN video_obj.frame_rate
    ELSE NoValue

\* if fps is None or fps <= 0: fps = 30.0
effective_fps(f) == IF f = NoValue \/ f <= 0 THEN DEFAULT_FPS ELSE f

\* duration = max(0.0, end_seconds - start_seconds)
export_duration(start_seconds, end_seconds) == Max2(0, end_seconds - start_seconds)

\* if end_seconds <= start_seconds: raise ValueError
precise_rejects(start_seconds, end_seconds) == end_seconds <= start_seconds

(* Inputs of SpecParam *)
ProbedFps == {NoValue, 0, -25, 24, 30}
ParamSeries == {<<>>, <<0, 3, 0>>, <<1, 3, 1, 2, 0>>}
ParamMinSceneSeconds == {0, 1}
ExportTimes == {0, 5, 10, 20}

ParamCalls ==
    {[fn |-> "auto_choose_threshold_for_video",
      video_obj |-> [framerate |-> a, frame_rate |-> b],
      content_vals |-> cv, min_scene_seconds |-> mss] :
         a \in ProbedFps, b \in ProbedFps, cv \in ParamSeries, mss \in ParamMinSceneSeconds}
    \cup {[fn |-> f, start_seconds |-> a, end_seconds |-> b] :
             f \in {"ffmpeg_export_clip", "ffmpeg_export_clip_precise"},
             a \in ExportTimes, b \in ExportTimes}

ParamIdle ==
    /\ param_call = [fn |-> "none"]
    /\ ffmpeg_cmds = <<>>
    /\ fps_used = NoValue
    /\ param_threshold = NoValue
    /\ param_outcome = "none"
    /\ ppc = "idle"

ParamInit ==
    /\ param_call \in ParamCalls
    /\ ffmpeg_cmds = <<>>
    /\ fps_used = NoValue
    /\ param_threshold = NoValue
    /\ param_outcome = "none"
    /\ ppc = "call"

\* auto_choose_threshold_for_video: the fps of the video, then the series of
\* the statistics (no value in it: RuntimeError), then the threshold.
AutoChooseThreshold ==
    /\ ppc = "call"
    /\ param_call.fn = "auto_choose_threshold_for_video"
    /\ LET f == effective_fps(safe_get_video_fps(param_call.video_obj))
       IN IF param_call.content_vals = <<>>
          THEN /\ param_outcome' = "RuntimeError"
               /\ UNCHANGED <<fps_used, param_threshold>>
          ELSE /\ fps_used' = f
               /\ param_threshold' =
                     choose_threshold_from_content_vals(param_call.content_vals, f,
                                                        param_call.min_scene_seconds).chosen
               /\ param_outcome' = "returned"
    /\ ppc' = "done"
    /\ UNCHANGED <<param_call, ffmpeg_cmds>>
    /\ UNCHANGED notParam

\* ffmpeg_export_clip up to subprocess.run
ExportClipRun ==
    /\ ppc = "call"
    /\ param_call.fn = "ffmpeg_export_clip"
    /\ ffmpeg_cmds' = Append(ffmpeg_cmds,
                             [ss |-> param_call.start_seconds,
                              t |-> export_duration(param_call.start_seconds,
                                                    param_call.end_seconds)])
    /\ ppc' = "ffmpeg"
    /\ UNCHANGED <<param_call, fps_used, param_threshold, param_outcome>>
    /\ UNCHANGED notParam

\* ffmpeg_export_clip_precise: the ValueError of line 223-224
ExportPreciseReject ==
    /\ ppc = "call"
    /\ param_call.fn = "ffmpeg_export_clip_precise"
    /\ precise_rejects(param_call.start_seconds, param_call.end_seconds)
    /\ param_outcome' = "ValueError"
    /\ ppc' = "done"
    /\ UNCHANGED <<param_call, ffmpeg_cmds, fps_used, param_threshold>>
    /\ UNCHANGED notParam

\* ffmpeg_export_clip_precise up to subprocess.run
ExportPreciseRun ==
    /\ ppc = "call"
    /\ param_call.fn = "ffmpeg_export_clip_precise"
    /\ ~precise_rejects(param_call.start_seconds, param_call.end_seconds)
    /\ ffmpeg_cmds' = Append(ffmpeg_cmds,
                             [ss |-> param_call.start_seconds, to |-> param_call.end_seconds])
    /\ ppc' = "ffmpeg"
    /\ UNCHANGED <<param_call, fps_used, param_threshold, param_outcome>>
    /\ UNCHANGED notParam

\* ffmpeg exits: returncode != 0 or no output or an empty output raise RuntimeError
FfmpegExit ==
    /\ ppc = "ffmpeg"
    /\ \E ok \in BOOLEAN : param_outcome' = IF ok THEN "returned" ELSE "RuntimeError"
    /\ ppc' = "done"
    /\ UNCHANGED <<param_call, ffmpeg_cmds, fps_used, param_threshold>>
    /\ UNCHANGED notParam

----------------------------------------------------------------------------
(* Keyframe lookup: get_next_keyframe_time, get_previous_keyframe_time,       *)
(* src/services/ffmpeg_utils.py 68-105 and 149-187.  ffprobe is the            *)
(* environment.  A line of its output is a time in 0.1 s, or one of the two    *)
(* codes below.                                                                *)

BlankLine == -1          \* a line that is empty after strip()
JunkLine == -2           \* a line float() rejects, such as "N/A"

\* float(line) succeeds
parses(line) == line >= 0

\* lines 89-96: times of the lines that are not blank and that float() accepts
RECURSIVE parse_times(_)
parse_times(lines) ==
    IF lines = <<>> THEN <<>>
    ELSE IF parses(Head(lines)) THEN <<Head(lines)>> \o parse_times(Tail(lines))
    ELSE parse_times(Tail(lines))

\* for ts in times: if ts >= start_seconds: return ts
RECURSIVE first_at_or_after(_, _)
first_at_or_after(times, start_seconds) ==
    IF times = <<>> THEN NoValue
    ELSE IF Head(times) >= start_seconds THEN Head(times)
    ELSE first_at_or_after(Tail(times), start_seconds)

get_next_keyframe_time(pr, start_seconds) ==
    IF pr.raises THEN NoValue                                  \* except: return None
    ELSE IF pr.returncode # 0 THEN NoValue
    ELSE IF parse_times(pr.lines) = <<>> THEN NoValue          \* if not times
    ELSE first_at_or_after(parse_times(pr.lines), start_seconds)

\* lines 172-184: the loop with its break; the loop state is last
RECURSIVE last_before_break(_, _, _)
last_before_break(lines, end_seconds, last) ==
    IF lines = <<>> THEN last
    ELSE IF ~parses(Head(lines)) THEN last_before_break(Tail(lines), end_seconds, last)
    ELSE IF Head(lines) <= end_seconds
         THEN last_before_break(Tail(lines), end_seconds, Head(lines))
    ELSE last                                                  \* break

get_previous_keyframe_time(pr, end_seconds) ==
    IF pr.raises THEN NoValue                                  \* except: return None
    ELSE IF pr.returncode # 0 THEN NoValue
    ELSE last_before_break(pr.lines, end_seconds, NoValue)

(* Inputs of SpecKey *)
MaxLines == 3
LineValues == {0, 20, 40, BlankLine, JunkLine}
KeySeconds == {0, 10, 20, 30, 50}

Probes ==
    {[raises |-> TRUE, returncode |-> 0, lines |-> <<>>]}
    \cup {[raises |-> FALSE, returncode |-> rc, lines |-> ls] :
             rc \in {0, 1}, ls \in SeriesUpTo(MaxLines, LineValues)}

KeyIdle ==
    /\ key_fn = "none"
    /\ probe = [raises |-> FALSE, returncode |-> 0, lines |-> <<>>]
    /\ key_seconds = 0
    /\ key_result = NoValue
    /\ kpc = "idle"

KeyInit ==
    /\ key_fn \in {"get_next_keyframe_time", "get_previous_keyframe_time"}
    /\ probe \in Probes
    /\ key_seconds \in KeySeconds
    /\ key_result = NoValue
    /\ kpc = "call"

GetNextKeyframe ==
    /\ kpc = "call"
    /\ key_fn = "get_next_keyframe_time"
    /\ key_result' = get_next_keyframe_time(probe, key_seconds)
    /\ kpc' = "returned"
    /\ UNCHANGED <<key_fn, probe, key_seconds>>
    /\ UNCHANGED notKey

GetPreviousKeyframe ==
    /\ kpc = "call"
    /\ key_fn = "get_previous_keyframe_time"
    /\ key_result' = get_previous_keyframe_time(probe, key_seconds)
    /\ kpc' = "returned"
    /\ UNCHANGED <<key_fn, probe, key_seconds>>
    /\ UNCHANGED notKey

----------------------------------------------------------------------------
(* Specifications *)

vars == <<coreVars, extraVars>>

ExtraIdle == ParamIdle /\ ConcIdle /\ KeyIdle /\ PollIdle
CoreIdle == RefineIdle /\ SubIdle /\ ThrIdle /\ SegIdle /\ ClipIdle /\ JobIdle

InitRefine == RefineInit /\ SubIdle /\ ThrIdle /\ SegIdle /\ ClipIdle /\ JobIdle /\ ExtraIdle
SpecRefine == InitRefine /\ [][RefineCall]_vars

InitSub == SubInit /\ RefineIdle /\ ThrIdle /\ SegIdle /\ ClipIdle /\ JobIdle /\ ExtraIdle
SpecSub == InitSub /\ [][SubCall]_vars

InitThr == ThrInit /\ RefineIdle /\ SubIdle /\ SegIdle /\ ClipIdle /\ JobIdle /\ ExtraIdle
SpecThr == InitThr /\ [][ThrCall]_vars

InitSeg == SegInit /\ RefineIdle /\ SubIdle /\ ThrIdle /\ ClipIdle /\ JobIdle /\ ExtraIdle
NextSeg == SegCall \/ SegRaise
SpecSeg == InitSeg /\ [][NextSeg]_vars

InitClip == ClipInit /\ RefineIdle /\ SubIdle /\ ThrIdle /\ SegIdle /\ JobIdle /\ ExtraIdle
NextClip ==
    \/ ClipRefineStart
    \/ ClipRefineEnd
    \/ ClipDetectSubscenes
    \/ ClipExportWhole
    \/ ClipExportSub
    \/ ClipSkipSub
    \/ ClipLoopEnd
    \/ ClipReturn
SpecClip == InitClip /\ [][NextClip]_vars

InitJob == JobInit /\ RefineIdle /\ SubIdle /\ ThrIdle /\ SegIdle /\ ClipIdle /\ ExtraIdle
NextJob ==
    \/ JobStart
    \/ JobAnalysisStep
    \/ JobAnalysisFail
    \/ JobValidate
    \/ JobReceiveException
    \/ JobReceiveClips
    \/ JobFinish
    \/ JobFinally
SpecJob == InitJob /\ [][NextJob]_vars


InitConc == ConcInit /\ CoreIdle /\ ParamIdle /\ KeyIdle /\ PollIdle
NextConc == ConcSortStep \/ ConcChooseStep
SpecConc == InitConc /\ [][NextConc]_vars

InitKey == KeyInit /\ CoreIdle /\ ParamIdle /\ ConcIdle /\ PollIdle
NextKey == GetNextKeyframe \/ GetPreviousKeyframe
SpecKey == InitKey /\ [][NextKey]_vars

InitPoll ==
    PollInit /\ RefineIdle /\ SubIdle /\ ThrIdle /\ SegIdle /\ ClipIdle
        /\ ParamIdle /\ ConcIdle /\ KeyIdle
NextPoll ==
    \/ JobStart
    \/ JobAnalysisStep
    \/ JobAnalysisFail
    \/ JobValidate
    \/ JobReceiveException
    \/ JobReceiveClips
    \/ JobFinish
    \/ JobFinally
    \/ CallFinished
    \/ GetStatus
    \/ GetStatusUnknown
SpecPoll == InitPoll /\ [][NextPoll]_vars

InitParam == ParamInit /\ RefineIdle /\ SubIdle /\ ThrIdle /\ SegIdle /\ ClipIdle /\ JobIdle /\ ConcIdle /\ KeyIdle /\ PollIdle
NextParam ==
    \/ AutoChooseThreshold
    \/ ExportClipRun
    \/ ExportPreciseReject
    \/ ExportPreciseRun
    \/ FfmpegExit
SpecParam == InitParam /\ [][NextParam]_vars

----------------------------------------------------------------------------
(* Properties of find_precise_boundary (SpecRefine) *)

CandidateCuts == {detection.scene_list[i][1] : i \in 2..Len(detection.scene_list)}
NoCandidate == detection.raises \/ Len(detection.scene_list) <= 1
Fitness(t) == get_fitness_score(fuzzy_time, detection.stats, t)
BestCuts == {c \in CandidateCuts : \A d \in CandidateCuts : Fitness(d) <= Fitness(c)}

\* C1: the returned time lies in [fuzzy - 1.5 s, fuzzy + 1.5 s], and it is exactly
\* the fuzzy time when there is no candidate cut (no scene, one scene, or the
\* detection raised).
C1_WithinRadiusOrFuzzy ==
    rpc = "returned" =>
        /\ fuzzy_time - SEARCH_RADIUS <= actual_cut
        /\ actual_cut <= fuzzy_time + SEARCH_RADIUS
        /\ (NoCandidate => actual_cut = fuzzy_time)

\* C1 witness: a cut at the far edge of the window was returned, and (other
\* runs) the fallbacks were taken.
C1_Witness ==
    /\ rpc = "returned"
    /\ ~NoCandidate
    /\ actual_cut = fuzzy_time + SEARCH_RADIUS

\* C8, as claimed: among the cuts of maximal fitness the returned one has the
\* smallest distance to the fuzzy time.
C8_TieSmallestDistance ==
    (rpc = "returned" /\ ~NoCandidate) =>
        \A c \in BestCuts : Abs(actual_cut - fuzzy_time) <= Abs(c - fuzzy_time)

\* C8, amended: among the cuts of maximal fitness the returned one is the
\* earliest in time (the first of the scene list), whatever the distances.
C8_TieEarliest ==
    (rpc = "returned" /\ ~NoCandidate) =>
        /\ actual_cut \in BestCuts
        /\ \A c \in BestCuts : actual_cut <= c

\* C8 witness: two cuts tie at the maximum and the returned one is the farther.
C8_Witness ==
    /\ rpc = "returned"
    /\ ~NoCandidate
    /\ Cardinality(BestCuts) >= 2
    /\ \E c \in BestCuts : Abs(c - fuzzy_time) < Abs(actual_cut - fuzzy_time)

\* fitness(c) = strength(c) * max(0, 1 - |time(c) - fuzzy| / 1.5)^2, in units of
\* 1/225 (times in 0.1 s), a missing strength counting as 0.
Strength(c) == IF detection.stats[c] = NoMetric THEN 0 ELSE detection.stats[c]
ClaimedFitness(c) ==
    LET d == Abs(c - fuzzy_time)
    IN IF d >= 15 THEN 0 ELSE Strength(c) * (15 - d) * (15 - d)

\* C17: with a non-empty candidate set the returned time is a candidate whose
\* fitness is at least that of every candidate; with fuzzy = 10.0 and the
\* candidates (10.2, score 8) and (8.9, score 20) the result is 10.2.
C17_MaximizesFitness ==
    (rpc = "returned" /\ ~NoCandidate) =>
        /\ actual_cut \in CandidateCuts
        /\ \A c \in CandidateCuts : ClaimedFitness(actual_cut) >= ClaimedFitness(c)
        /\ (/\ fuzzy_time = 100
            /\ CandidateCuts = {89, 102}
            /\ detection.stats[102] = 8
            /\ detection.stats[89] = 20) => actual_cut = 102

\* C17 witness: the scenario of the claim: the weaker but closer cut was returned.
C17_Witness ==
    /\ rpc = "returned"
    /\ fuzzy_time = 100
    /\ CandidateCuts = {89, 102}
    /\ detection.stats[102] = 8
    /\ detection.stats[89] = 20
    /\ actual_cut = 102
    /\ ClaimedFitness(102) = 8 * 13 * 13
    /\ ClaimedFitness(89) = 20 * 4 * 4

----------------------------------------------------------------------------
(* Properties of detect_high_confidence_subscenes (SpecSub) *)

RawCuts == {sub_detection.scene_list[i][2] : i \in 1..(Len(sub_detection.scene_list) - 1)}
SubStats(t) == sub_detection.stats[t]

\* The rule of the claim, on the raw values of the statistics.
RuleAccepts(t) ==
    /\ t \in DOMAIN sub_detection.stats
    /\ SubStats(t).exist
    /\ SubStats(t).adaptive # NoMetric
    /\ \/ (SubStats(t).adaptive >= 7 /\ SubStats(t).hash # NoMetric /\ SubStats(t).hash >= 4)
       \/ SubStats(t).adaptive >= 13

\* C5: a raw cut is accepted iff both metrics exist at its frame and
\* ((adaptive >= 7 and hash >= 0.4) or adaptive >= 13); a cut without metrics
\* is rejected and the function still returns (adaptive 6, hash 0.9: rejected).
C5_AcceptanceRule ==
    spc = "returned" =>
        /\ accepted_log = {t \in RawCuts : RuleAccepts(t)}
        /\ {final_scenes[i][2] : i \in 1..(Len(final_scenes) - 1)}
               = {t \in RawCuts : RuleAccepts(t)}
        /\ \A t \in RawCuts :
              (SubStats(t).exist /\ SubStats(t).adaptive = 6 /\ SubStats(t).hash = 9)
                  => t \notin accepted_log

\* C5 witness: one cut without metrics was rejected, another was accepted with a
\* hash distance below 0.4 (a screamer), and the function returned ranges.
C5_Witness ==
    /\ spc = "returned"
    /\ \E t \in RawCuts : ~SubStats(t).exist /\ t \notin accepted_log
    /\ \E t \in RawCuts : SubStats(t).hash = 1 /\ t \in accepted_log
    /\ Len(final_scenes) = 2

\* C6: with k >= 1 accepted cuts the result is k + 1 ranges in time order: the
\* first starts at the start of the scanned window, every accepted cut ends one
\* range and starts the next, the last ends at end_time; with no accepted cut the
\* result is empty.
C6_Accumulation ==
    spc = "returned" =>
        IF accepted_log = {} THEN final_scenes = <<>>
        ELSE /\ Len(final_scenes) = Cardinality(accepted_log) + 1
             /\ final_scenes[1][1] = sub_start
             /\ final_scenes[Len(final_scenes)][2] = sub_end
             /\ \A i \in 1..(Len(final_scenes) - 1) :
                   /\ final_scenes[i][2] \in accepted_log
                   /\ final_scenes[i + 1][1] = final_scenes[i][2]
             /\ \A i \in 1..Len(final_scenes) : final_scenes[i][1] < final_scenes[i][2]
             /\ {final_scenes[i][2] : i \in 1..(Len(final_scenes) - 1)} = accepted_log

\* C6 witness: one raw cut with adaptive 14 and hash 0.1 gave two ranges split at it.
C6_Witness ==
    /\ spc = "returned"
    /\ Cardinality(RawCuts) = 1
    /\ \E t \in RawCuts :
          /\ SubStats(t).adaptive = 14 /\ SubStats(t).hash = 1
          /\ final_scenes = <<<<sub_start, t>>, <<t, sub_end>>>>

\* C7, as claimed: fewer than 2 raw cuts in the window give the empty result.
C7_FewerThanTwoCutsEmpty ==
    (spc = "returned" /\ Cardinality(RawCuts) < 2) => final_scenes = <<>>

\* C7, amended: fewer than 2 raw scenes (no raw cut at all) give the empty
\* result; a single raw cut is examined: rejected it gives the empty result,
\* accepted it gives the two ranges on either side of it.
C7_NoRawCutEmpty ==
    spc = "returned" =>
        /\ Len(sub_detection.scene_list) <= 1 => final_scenes = <<>>
        /\ \A t \in RawCuts :
              RawCuts = {t} =>
                  final_scenes = IF RuleAccepts(t)
                                 THEN <<<<sub_start, t>>, <<t, sub_end>>>>
                                 ELSE <<>>

\* C7 witness: the detectors reported a single scene and the result is empty.
C7_Witness ==
    /\ spc = "returned"
    /\ ~sub_detection.raises
    /\ Len(sub_detection.scene_list) = 1
    /\ final_scenes = <<>>

----------------------------------------------------------------------------
(* Properties of _choose_threshold_from_content_vals (SpecThr) *)

MinSep == min_sep_of(fps, min_scene_seconds)

\* The cut indices of the trial segmentation at threshold t: the surviving
\* peaks and the implicit cuts at 0 and n - 1.
TrialCuts(t) ==
    {0, Len(content_vals) - 1}
    \cup {trial_peaks(content_vals, MinSep, t)[i] :
             i \in 1..Len(trial_peaks(content_vals, MinSep, t))}

\* C4: when the returned threshold was selected as best (not a fallback), no
\* scene of the trial segmentation at that threshold is shorter than
\* minSeparationFrames = max(1, floor(minSceneSeconds * fps)).
C4_NoShortSceneAtChosen ==
    (tpc = "returned" /\ best_threshold # NoValue) =>
        /\ chosen_threshold = best_threshold
        /\ \A a \in TrialCuts(chosen_threshold) : \A b \in TrialCuts(chosen_threshold) :
              a < b => b - a >= MinSep

\* C4 witness: with minSeparationFrames >= 2 a threshold was selected although a
\* lower candidate had peaks but produced a scene that was too short.
C4_Witness ==
    /\ tpc = "returned"
    /\ best_threshold # NoValue
    /\ MinSep >= 2
    /\ \E k \in 1..Len(candidates_of(content_vals)) :
          LET t == candidates_of(content_vals)[k]
          IN /\ t < best_threshold
             /\ \E a \in TrialCuts(t) : \E b \in TrialCuts(t) : a < b /\ b - a < MinSep

\* A candidate survives the minimum-length filter: it keeps at least one peak
\* and no scene of its trial segmentation is shorter than MinSep.
Candidates == {candidates_of(content_vals)[k] : k \in 1..Len(candidates_of(content_vals))}
HasPeaks(t) == trial_peaks(content_vals, MinSep, t) # <<>>
Survives(t) ==
    /\ HasPeaks(t)
    /\ \A a \in TrialCuts(t) : \A b \in TrialCuts(t) : a < b => b - a >= MinSep
Percentile98 == percentile_of_sorted(Sorted(content_vals), 980)

\* C11: an empty series gives 27.0; a non-empty series none of whose candidates
\* survives the minimum-length filter gives the 98th percentile of the series;
\* in both cases the function returns a value.
C11_Fallbacks ==
    tpc = "returned" =>
        /\ chosen_threshold # NoValue
        /\ content_vals = <<>> => chosen_threshold = 27000
        /\ (content_vals # <<>> /\ \A t \in Candidates : ~Survives(t))
              => chosen_threshold = Percentile98

\* C11 witness: a non-empty series with peaks at some candidate, every candidate
\* rejected, and the interpolated 98th percentile (not a score of the series,
\* not 27.0) returned.
C11_Witness ==
    /\ tpc = "returned"
    /\ content_vals # <<>>
    /\ \E t \in Candidates : HasPeaks(t)
    /\ \A t \in Candidates : ~Survives(t)
    /\ chosen_threshold = Percentile98
    /\ chosen_threshold % ThresholdScale # 0

\* Index i (0-based) is strictly interior and a local maximum: greater than its
\* predecessor, at least its successor.
LocalMax(i) ==
    /\ 1 <= i /\ i <= Len(content_vals) - 2
    /\ content_vals[i + 1] > content_vals[i]
    /\ content_vals[i + 1] >= content_vals[i + 2]
SeqSet(sq) == {sq[k] : k \in 1..Len(sq)}
KeptMaxima == SeqSet(find_local_maxima(content_vals, MinSep))

\* C15, as claimed: for every candidate t the cut indices are those of one scan
\* that accepts a local maximum iff its score is >= t and it is at least
\* minSeparationFrames after the previous index accepted by that same rule.
C15_PeakRuleThresholdInScan ==
    (tpc = "returned" /\ content_vals # <<>>) =>
        \A t \in Candidates :
            trial_peaks(content_vals, MinSep, t)
                = trial_peaks_thresholdFirst(content_vals, MinSep, t)

\* C15, amended: the separation is applied first, without the threshold: a local
\* maximum is kept iff it is at least minSeparationFrames after every earlier
\* kept local maximum, whatever the scores; the cut indices for t are the kept
\* local maxima whose score is >= t, in ascending order.
C15_PeakRuleSeparationFirst ==
    (tpc = "returned" /\ content_vals # <<>>) =>
        /\ \A i \in 0..(Len(content_vals) - 1) :
              i \in KeptMaxima <=>
                  /\ LocalMax(i)
                  /\ \A j \in KeptMaxima : j < i => i - j >= MinSep
        /\ \A t \in Candidates :
              LET peaks == trial_peaks(content_vals, MinSep, t)
              IN /\ SeqSet(peaks) = {i \in KeptMaxima : content_vals[i + 1] * ThresholdScale >= t}
                 /\ \A k \in 1..(Len(peaks) - 1) : peaks[k] < peaks[k + 1]

\* C15 witness: at some candidate a local maximum at or above the threshold is
\* not a cut, because a kept local maximum below the threshold lies less than
\* minSeparationFrames before it.
C15_Witness ==
    /\ tpc = "returned"
    /\ content_vals # <<>>
    /\ \E t \in Candidates : \E i \in 0..(Len(content_vals) - 1) : \E j \in KeptMaxima :
          /\ LocalMax(i)
          /\ content_vals[i + 1] * ThresholdScale >= t
          /\ i \notin SeqSet(trial_peaks(content_vals, MinSep, t))
          /\ j < i /\ i - j < MinSep
          /\ content_vals[j + 1] * ThresholdScale < t

\* The number of scenes of the trial segmentation at t.
NumScenes(t) == Cardinality(TrialCuts(t)) - 1

\* C16: a threshold is selected iff some candidate survives; the selected one is
\* a survivor with the maximum number of scenes and, among the survivors with
\* that number, the smallest threshold.
C16_MostScenesThenSmallest ==
    (tpc = "returned" /\ content_vals # <<>>) =>
        /\ best_threshold # NoValue <=> \E t \in Candidates : Survives(t)
        /\ best_threshold # NoValue =>
              /\ best_threshold \in Candidates
              /\ Survives(best_threshold)
              /\ chosen_threshold = best_threshold
              /\ \A t \in Candidates :
                    Survives(t) =>
                        /\ NumScenes(t) <= NumScenes(best_threshold)
                        /\ NumScenes(t) = NumScenes(best_threshold) => best_threshold <= t

\* C16 witness: a larger survivor produces as many scenes as the selected
\* threshold (the tie went to the smaller threshold).
C16_Witness ==
    /\ tpc = "returned"
    /\ content_vals # <<>>
    /\ best_threshold # NoValue
    /\ \E t \in Candidates :
          Survives(t) /\ t > best_threshold /\ NumScenes(t) = NumScenes(best_threshold)

\* The greatest score of the series, scaled like the thresholds.
MaxScore == CHOOSE m \in SeqSet(content_vals) : \A v \in SeqSet(content_vals) : v <= m

\* C21: a returned value that is not a fallback is one of the percentile
\* candidates, is no greater than the maximum score of the series, and its trial
\* segmentation has at least one cut, that is at least 2 scenes.
C21_SelectedHasPeak ==
    (tpc = "returned" /\ best_threshold # NoValue) =>
        /\ chosen_threshold \in Candidates
        /\ chosen_threshold <= MaxScore * ThresholdScale
        /\ trial_peaks(content_vals, MinSep, chosen_threshold) # <<>>
        /\ Cardinality(TrialCuts(chosen_threshold)) >= 3

\* C21 witness: a threshold was selected although a larger candidate left no
\* peak and its single scene, the whole series, was long enough.
C21_Witness ==
    /\ tpc = "returned"
    /\ best_threshold # NoValue
    /\ trial_peaks(content_vals, MinSep, chosen_threshold) # <<>>
    /\ Len(content_vals) - 1 >= MinSep
    /\ \E t \in Candidates :
          t > chosen_threshold /\ trial_peaks(content_vals, MinSep, t) = <<>>

----------------------------------------------------------------------------
(* Properties of detect_scenes_seconds (SpecSeg) *)

SegScenes == seg_detection.scene_list
NoShortScene ==
    \A i \in 1..Len(SegScenes) : SegScenes[i][2] - SegScenes[i][1] >= seg_min_scene_seconds
Contiguous(rs) == \A i \in 1..(Len(rs) - 1) : rs[i][2] = rs[i + 1][1]

\* C3, as claimed: the ranges span [0, end of the video] exactly: the first starts
\* at 0, each end is the next start, the last ends where the video ends, for
\* every detector scene list and every min_scene_seconds.
C3_ExactSpan ==
    (gpc = "returned" /\ SegScenes # <<>>) =>
        /\ ranges[1][1] = 0
        /\ Contiguous(ranges)
        /\ ranges[Len(ranges)][2] = SegScenes[Len(SegScenes)][2]

\* C3, amended: the ranges are in ascending order and do not overlap; they span
\* [0, end of the video] exactly when no detector scene is shorter than
\* min_scene_seconds (so for every min_scene_seconds <= 0).
C3_SpanUnlessSceneDropped ==
    (gpc = "returned" /\ SegScenes # <<>>) =>
        /\ \A i \in 1..Len(ranges) : ranges[i][1] <= ranges[i][2]
        /\ \A i \in 1..(Len(ranges) - 1) : ranges[i][2] <= ranges[i + 1][1]
        /\ NoShortScene =>
              /\ ranges[1][1] = 0
              /\ Contiguous(ranges)
              /\ ranges[Len(ranges)][2] = SegScenes[Len(SegScenes)][2]

\* C3 witness: three scenes, one exactly min_scene_seconds long, all returned.
C3_Witness ==
    /\ gpc = "returned"
    /\ seg_min_scene_seconds > 0
    /\ Len(SegScenes) = 3
    /\ \E i \in 1..3 : SegScenes[i][2] - SegScenes[i][1] = seg_min_scene_seconds
    /\ ranges = SegScenes

\* Every detector scene is shorter than the minimum length.
AllScenesDropped ==
    \A i \in 1..Len(SegScenes) :
        SegScenes[i][2] - SegScenes[i][1] < Max2(0, seg_min_scene_seconds)

----------------------------------------------------------------------------
(* Properties of create_clip (SpecClip) *)

\* C2: every (start, end) pair passed to cut_and_upload_clip has end > start,
\* for every scene that passed the validation end - start >= 2.0 s.
C2_ExportedRangePositive ==
    \A i \in 1..Len(export_calls) : export_calls[i][2] > export_calls[i][1]

\* C20: when no cut_and_upload_clip call fails, create_clip returns a non-empty
\* list: the clip of the whole refined range when there is no sub-scene, the
\* clips of the sub-scenes otherwise.
C20_AtLeastOneClip ==
    cpc = "returned" =>
        /\ clip_result # <<>>
        /\ sub_scenes = <<>> => clip_result = <<<<clip_start, clip_end>>>>
        /\ sub_scenes # <<>> =>
              \A i \in 1..Len(clip_result) : \E k \in 1..Len(sub_scenes) :
                  clip_result[i] = sub_scenes[k]

----------------------------------------------------------------------------
(* Properties of process_video_with_gemini (SpecJob) *)

Dispatched == {valid_timestamps[i] : i \in 1..Len(valid_timestamps)}
Min2(a, b) == IF a <= b THEN a ELSE b

\* C9: every dispatched scene has start_time < actual_duration and
\* end_time <= actual_duration, and passed the test >= 2.0 s on the clamped range.
C9_DispatchedClamped ==
    \A sc \in Dispatched :
        /\ sc.start_time < actual_duration
        /\ sc.end_time <= actual_duration
        /\ Min2(sc.end_time, actual_duration) - sc.start_time >= MIN_RESULT_DURATION

\* The clips of the workers that succeeded.
SucceededClips ==
    UNION {{worker_result[i].clips[k] : k \in 1..Len(worker_result[i].clips)} :
              i \in {j \in 1..Len(worker_result) : worker_result[j].state = "ok"}}

\* C10: once scenes are dispatched, the job never ends by raising, whichever
\* workers raise and in whatever order the results arrive; when it is over it
\* has returned exactly the clips of the workers that succeeded, ordered by
\* start_time.
C10_FailedSegmentsSkipped ==
    Len(valid_timestamps) > 0 =>
        /\ job_outcome # "raised"
        /\ jpc = "done" =>
              /\ job_outcome = "returned"
              /\ {job_result[k] : k \in 1..Len(job_result)} = SucceededClips
              /\ Len(job_result) = Cardinality(SucceededClips)
              /\ \A k \in 1..(Len(job_result) - 1) :
                    job_result[k].start_time <= job_result[k + 1].start_time

\* C10 witness: the job is over, one worker raised, another returned two clips,
\* and the result holds exactly those.
C10_Witness ==
    /\ jpc = "done"
    /\ job_outcome = "returned"
    /\ \E i \in 1..Len(worker_result) : worker_result[i].state = "raised"
    /\ Len(job_result) = 2

----------------------------------------------------------------------------
(* Properties of the parameter handling (SpecParam) *)

\* The video reports no positive frame rate and at least one non-positive one.
NonPositiveFps ==
    /\ param_call.fn = "auto_choose_threshold_for_video"
    /\ safe_get_video_fps(param_call.video_obj) = NoValue
         \/ safe_get_video_fps(param_call.video_obj) <= 0
    /\ param_call.video_obj.framerate # NoValue \/ param_call.video_obj.frame_rate # NoValue
EmptyRange ==
    /\ param_call.fn \in {"ffmpeg_export_clip", "ffmpeg_export_clip_precise"}
    /\ param_call.end_seconds <= param_call.start_seconds

\* C13: a non-positive frame rate given to threshold selection, and a range with
\* end <= start given to either export, end in an error and nothing proceeds
\* with a substituted value: no threshold is chosen with another fps and ffmpeg
\* is not run.
C13_InvalidParametersFailFast ==
    (NonPositiveFps \/ EmptyRange) =>
        /\ ffmpeg_cmds = <<>>
        /\ fps_used = NoValue
        /\ ppc = "done" => param_outcome \in {"ValueError", "RuntimeError"}

----------------------------------------------------------------------------
(* Properties of the keyframe lookup (SpecKey) *)

\* The keyframe timestamps the probe printed.
KeyframeTimes == SeqSet(parse_times(probe.lines))
ProbePrinted == ~probe.raises /\ probe.returncode = 0

\* C18: for every list of timestamps the probe printed, get_next_keyframe_time
\* returns the smallest keyframe time >= start_seconds,
\* get_previous_keyframe_time the greatest keyframe time <= end_seconds, and
\* each returns None exactly when there is no such keyframe.
C18_NearestKeyframe ==
    (kpc = "returned" /\ ProbePrinted) =>
        /\ key_fn = "get_next_keyframe_time" =>
              LET S == {t \in KeyframeTimes : t >= key_seconds}
              IN IF S = {} THEN key_result = NoValue
                 ELSE key_result \in S /\ \A t \in S : key_result <= t
        /\ key_fn = "get_previous_keyframe_time" =>
              LET S == {t \in KeyframeTimes : t <= key_seconds}
              IN IF S = {} THEN key_result = NoValue
                 ELSE key_result \in S /\ \A t \in S : t <= key_result

----------------------------------------------------------------------------
(* Properties of the status polling (SpecPoll) *)

\* The progress values of the responses that carry one, in order.
Reported == {i \in 1..Len(poll_log) : poll_log[i].progress # NoValue}

\* C19: in every interleaving of the coordinator's progress writes, its removal
\* of the job's entry and the polls, the progress values of successive
\* responses never decrease and lie in [0.1, 1.0].
C19_ProgressNeverBackwards ==
    /\ \A i \in Reported : 10 <= poll_log[i].progress /\ poll_log[i].progress <= 100
    /\ \A i \in Reported : \A j \in Reported :
          i < j => poll_log[i].progress <= poll_log[j].progress

\* C22: every request is answered by the handler with one of three states:
\* 'processing' with a progress value while the call is running, 'completed'
\* with the scene list and progress 1.0 once the result is there, 'failed' when
\* the job raised or the job id is unknown; the handler never raises.
C22_ThreeStatesNeverRaises ==
    \A i \in 1..Len(poll_log) :
        LET r == poll_log[i]
        IN /\ r.status \in {"processing", "completed", "failed"}
           /\ r.call = "running" => (r.status = "processing" /\ r.progress # NoValue)
           /\ r.call = "returned" =>
                 (r.status = "completed" /\ r.progress = 100 /\ r.scenes = job_result)
           /\ r.call \in {"raised", "unknown"} => r.status = "failed"
====
